---- MODULE Spec2Model ----
(***************************************************************************)
(* A state-machine model of RAG_Chatbot.ipynb: main's one-time setup       *)
(* (credential, LLM client, URL prompt, load and split, vector store,      *)
(* agent executor) followed by start_interactive_session's question loop.  *)
(* The external collaborators (ChatGroq, WebBaseLoader, the text splitter, *)
(* Chroma, AgentExecutor) are nondeterministic: each call either returns   *)
(* or raises an Exception.  input() always yields a line; interrupts and   *)
(* end-of-input (BaseException / EOFError at a prompt) are not modelled.   *)
(***************************************************************************)
EXTENDS Integers, Sequences, FiniteSets, TLC

(* ------------------------------ bounds -------------------------------- *)

\* Questions the user may enter that are not the sentinel, per session.
MaxTurns == 2
\* Chunks the splitter may produce for the page.
MaxChunks == 2
\* document_search requests the language model makes within one turn.
MaxToolCalls == 2

(* ------------------------- program constants -------------------------- *)

\* RecursiveCharacterTextSplitter(chunk_size=1000, chunk_overlap=200)
chunk_size == 1000
chunk_overlap == 200
\* vectorstore.as_retriever(search_kwargs={"k": 3})
k == 3

(* ------------------------------ values -------------------------------- *)

\* Python values held by main's locals.  Unset: the local is not yet bound.
Unset == [tag |-> "unset"]
NoneV == [tag |-> "None"]
Str(s) == [tag |-> "str", val |-> s]
List(n) == [tag |-> "list", len |-> n]
Obj(name) == [tag |-> "obj", name |-> name]

\* Python truthiness, as used by `if not x:` in main and setup_environment.
Truthy(v) ==
    CASE v.tag = "None" -> FALSE
      [] v.tag = "unset" -> FALSE
      [] v.tag = "str" -> Len(v.val) > 0
      [] v.tag = "list" -> v.len > 0
      [] OTHER -> TRUE

\* str.lower() on the characters the inputs are drawn from.
LowerChar(c) ==
    CASE c = "E" -> "e"
      [] c = "X" -> "x"
      [] c = "I" -> "i"
      [] c = "T" -> "t"
      [] c = "H" -> "h"
      [] OTHER -> c

Lower(s) == [i \in 1..Len(s) |-> LowerChar(s[i])]

\* The literal 'exit' of line 184.
EXIT == <<"e", "x", "i", "t">>

\* user_input.lower() == 'exit'
IsExitBroken(s) == s = EXIT
IsExit(s) == Lower(s) = EXIT

\* Lines the user may type at the "Your Question:" prompt.
Questions ==
    { EXIT,
      <<"E", "X", "I", "T">>,
      <<"E", "x", "i", "T">>,
      <<" ", "e", "x", "i", "t">>,
      <<"e", "x", "i", "t", " ">>,
      <<>>,
      <<"H", "i">> }

\* Lines the user may type at the URL prompt.
Urls == { <<>>, <<" ">>, <<"h", "t", "t", "p">> }

\* Values os.getenv("GROQ_API_KEY") may yield.
ApiKeys == { NoneV, Str(<<>>), Str(<<"g", "s", "k">>) }

\* The chunker's input contract: chunk_size > 0 and 0 <= overlap < chunk_size.
ConfigValid(size, overlap) == size > 0 /\ 0 <= overlap /\ overlap < size

(* ----------------------------- messages ------------------------------- *)

Msg(m) == [msg |-> m, arg |-> 0]
MsgN(m, n) == [msg |-> m, arg |-> n]

(* ------------------------------- state -------------------------------- *)

VARIABLES
    pc,              \* control location in main / start_interactive_session
    api_key,         \* setup_environment's api_key
    llm,             \* main's llm
    document_url,    \* main's document_url
    doc_splits,      \* main's doc_splits
    vector_store,    \* main's vector_store
    agent_executor,  \* main's agent_executor
    user_input,      \* start_interactive_session's user_input
    out,             \* everything printed so far, in order
    calls,           \* collaborator calls made during setup, in order
    index,           \* entries of the Chroma vector store
    turns,           \* non-sentinel questions read so far
    invokes,         \* agent_executor.invoke calls made
    inflight,        \* agent_executor.invoke calls that have not yet ended
    agentState,      \* the agent loop's state within one invoke
    iterations,      \* tool calls made within the current invoke
    scratchpad,      \* tool observations of the current invoke
    agentInput       \* the "input" the current invoke was given

vars == << pc, api_key, llm, document_url, doc_splits, vector_store,
           agent_executor, user_input, out, calls, index, turns, invokes,
           inflight, agentState, iterations, scratchpad, agentInput >>

locals == << api_key, llm, document_url, doc_splits, vector_store,
             agent_executor, user_input >>
agent == << invokes, inflight, agentState, iterations, scratchpad,
            agentInput >>

Init ==
    /\ pc = "main"
    /\ api_key = Unset
    /\ llm = Unset
    /\ document_url = Unset
    /\ doc_splits = Unset
    /\ vector_store = Unset
    /\ agent_executor = Unset
    /\ user_input = Unset
    /\ out = <<>>
    /\ calls = <<>>
    /\ index = {}
    /\ turns = 0
    /\ invokes = 0
    /\ inflight = 0
    /\ agentState = "Idle"
    /\ iterations = 0
    /\ scratchpad = <<>>
    /\ agentInput = Unset

(* ------------------------- main: one-time setup ----------------------- *)

\* main returns (a bare `return`, or falling off its end).
Return == pc' = "returned"

\* setup_environment's test `if not api_key:`
KeyMissingNoneOnly(v) == v.tag = "None"
KeyMissing(v) == ~Truthy(v)

\* setup_environment() and main's `if not setup_environment(): return`
SetupEnvironment ==
    /\ pc = "main"
    /\ \E key \in ApiKeys :
         /\ api_key' = key
         /\ IF KeyMissing(key)
              THEN /\ out' = out \o << Msg("ERROR: Groq API key not found."),
                                       Msg("Please create a .env file") >>
                   /\ Return
              ELSE /\ out' = Append(out, Msg("Groq API Key loaded"))
                   /\ pc' = "initialize_llm"
    /\ UNCHANGED << llm, document_url, doc_splits, vector_store,
                    agent_executor, user_input, calls, index, turns, agent >>

\* initialize_llm() and main's `if not llm: return`
InitializeLlm ==
    /\ pc = "initialize_llm"
    /\ calls' = Append(calls, "ChatGroq")
    /\ \E raised \in BOOLEAN :
         IF raised
           THEN /\ llm' = NoneV
                /\ out' = Append(out, Msg("Error initializing Groq LLM"))
                /\ Return
           ELSE /\ llm' = Obj("ChatGroq")
                /\ out' = Append(out, Msg("Groq LLM initialized."))
                /\ pc' = "url_prompt"
    /\ UNCHANGED << api_key, document_url, doc_splits, vector_store,
                    agent_executor, user_input, index, turns, agent >>

\* main's test `if not document_url:`
UrlMissingNoneOnly(v) == v.tag = "None"
UrlMissing(v) == ~Truthy(v)

\* document_url = input(...) and `if not document_url: ... return`
ReadUrl ==
    /\ pc = "url_prompt"
    /\ \E u \in Urls :
         /\ document_url' = Str(u)
         /\ IF UrlMissing(Str(u))
              THEN /\ out' = out \o << Msg("Please enter the URL"),
                                       Msg("No URL provided. Exiting.") >>
                   /\ Return
              ELSE /\ out' = Append(out, Msg("Please enter the URL"))
                   /\ pc' = "load"
    /\ UNCHANGED << api_key, llm, doc_splits, vector_store, agent_executor,
                    user_input, calls, index, turns, agent >>

\* load_and_split_documents up to the first print: WebBaseLoader(url) and
\* loader.load().  An exception is caught by the function's except clause,
\* which prints and returns None; main returns on `if not doc_splits`.
LoadDocumentsSplitterFirst ==
    /\ pc = "load"
    /\ calls' = calls \o << "RecursiveCharacterTextSplitter", "loader.load" >>
    /\ \E raised \in BOOLEAN :
         IF raised
           THEN /\ doc_splits' = NoneV
                /\ out' = Append(out, Msg("Error loading or splitting documents"))
                /\ Return
           ELSE /\ doc_splits' = doc_splits
                /\ out' = Append(out, MsgN("Loaded document(s) from the web.", 1))
                /\ pc' = "split"
    /\ UNCHANGED << api_key, llm, document_url, vector_store, agent_executor,
                    user_input, index, turns, agent >>

LoadDocuments ==
    /\ pc = "load"
    /\ calls' = Append(calls, "loader.load")
    /\ \E raised \in BOOLEAN :
         IF raised
           THEN /\ doc_splits' = NoneV
                /\ out' = Append(out, Msg("Error loading or splitting documents"))
                /\ Return
           ELSE /\ doc_splits' = doc_splits
                /\ out' = Append(out, MsgN("Loaded document(s) from the web.", 1))
                /\ pc' = "split"
    /\ UNCHANGED << api_key, llm, document_url, vector_store, agent_executor,
                    user_input, index, turns, agent >>

\* main's test `if not doc_splits:`
SplitsMissingNoneOnly(v) == v.tag = "None"
SplitsMissing(v) == ~Truthy(v)

\* The rest of load_and_split_documents: the splitter is constructed (its
\* configuration validated; an invalid one raises), the documents are split,
\* the count is printed and the chunks returned; main returns on
\* `if not doc_splits`.
SplitDocuments ==
    /\ pc = "split"
    /\ IF ~ConfigValid(chunk_size, chunk_overlap)
         THEN /\ calls' = Append(calls, "RecursiveCharacterTextSplitter")
              /\ doc_splits' = NoneV
              /\ out' = Append(out, Msg("Error loading or splitting documents"))
              /\ Return
         ELSE /\ calls' = calls \o << "RecursiveCharacterTextSplitter",
                                      "split_documents" >>
              /\ \E raised \in BOOLEAN, n \in 0..MaxChunks :
                   IF raised
                     THEN /\ doc_splits' = NoneV
                          /\ out' = Append(out,
                                      Msg("Error loading or splitting documents"))
                          /\ Return
                     ELSE /\ doc_splits' = List(n)
                          /\ out' = Append(out, MsgN("Document split into chunks.", n))
                          /\ IF SplitsMissing(List(n)) THEN Return ELSE pc' = "vector"
    /\ UNCHANGED << api_key, llm, document_url, vector_store, agent_executor,
                    user_input, index, turns, agent >>

\* create_vector_store(doc_splits) and main's `if not vector_store: return`.
\* Either the embedding model or Chroma.from_documents may raise.
CreateVectorStoreUnchecked ==
    /\ pc = "vector"
    /\ \E outcome \in {"ok", "chroma raised"} :
         /\ calls' = calls \o << "HuggingFaceEmbeddings", "Chroma.from_documents" >>
         /\ index' = IF outcome = "ok" THEN 1..doc_splits.len ELSE index
         /\ vector_store' = IF outcome = "ok" THEN Obj("Chroma") ELSE NoneV
         /\ out' = out \o << Msg("Initializing embedding model"),
                             IF outcome = "ok"
                               THEN Msg("Vector store created successfully.")
                               ELSE Msg("Error creating vector store") >>
         /\ pc' = "create_agent"
    /\ UNCHANGED << api_key, llm, document_url, doc_splits, agent_executor,
                    user_input, turns, agent >>

CreateVectorStore ==
    /\ pc = "vector"
    /\ \E outcome \in {"ok", "embedding raised", "chroma raised"} :
         /\ calls' = IF outcome = "embedding raised"
                       THEN Append(calls, "HuggingFaceEmbeddings")
                       ELSE calls \o << "HuggingFaceEmbeddings",
                                        "Chroma.from_documents" >>
         /\ IF outcome = "ok"
              THEN /\ index' = 1..doc_splits.len
                   /\ vector_store' = Obj("Chroma")
                   /\ out' = out \o << Msg("Initializing embedding model"),
                                       Msg("Vector store created successfully.") >>
                   /\ pc' = "create_agent"
              ELSE /\ index' = index
                   /\ vector_store' = NoneV
                   /\ out' = out \o << Msg("Initializing embedding model"),
                                       Msg("Error creating vector store") >>
                   /\ Return
    /\ UNCHANGED << api_key, llm, document_url, doc_splits, agent_executor,
                    user_input, turns, agent >>

\* create_agent_executor(llm, vector_store): no try/except, so an exception
\* raised while building the retriever, the tool, the prompt, the agent or
\* the executor leaves main as a propagated exception.
CreateAgentExecutor ==
    /\ pc = "create_agent"
    /\ calls' = Append(calls, "AgentExecutor")
    /\ \E raised \in BOOLEAN :
         IF raised
           THEN /\ agent_executor' = agent_executor
                /\ out' = Append(out, Msg("Creating RAG tool and agent..."))
                /\ pc' = "raised"
           ELSE /\ agent_executor' = Obj("AgentExecutor")
                /\ out' = out \o << Msg("Creating RAG tool and agent..."),
                                    Msg("Agent with RAG tool is ready.") >>
                /\ pc' = IF Truthy(Obj("AgentExecutor")) THEN "session"
                                                         ELSE "returned"
    /\ UNCHANGED << api_key, llm, document_url, doc_splits, vector_store,
                    user_input, index, turns, agent >>

(* -------------------- start_interactive_session ----------------------- *)

\* The three banner lines printed before the loop.
StartInteractiveSession ==
    /\ pc = "session"
    /\ out' = out \o << Msg("--- RAG Q&A System is Running ---"),
                        Msg("You can now ask questions"),
                        Msg("Type 'exit' to quit.") >>
    /\ pc' = "prompt"
    /\ UNCHANGED << locals, calls, index, turns, agent >>

\* One pass over the loop head: user_input = input("Your Question: ") and
\* the sentinel test.  On the sentinel the goodbye is printed and the loop
\* breaks, so the function and main return.
ReadQuestion ==
    /\ pc = "prompt"
    /\ \E q \in Questions :
         /\ IsExit(q) \/ turns < MaxTurns
         /\ user_input' = Str(q)
         /\ IF IsExit(q)
              THEN /\ out' = out \o << Msg("Your Question:"),
                                       Msg("Exiting the system. Goodbye!") >>
                   /\ turns' = turns
                   /\ Return
              ELSE /\ out' = Append(out, Msg("Your Question:"))
                   /\ turns' = turns + 1
                   /\ pc' = "invoke"
    /\ UNCHANGED << api_key, llm, document_url, doc_splits, vector_store,
                    agent_executor, calls, index, agent >>

\* agent_executor.invoke({"input": user_input}) is entered: a new agent
\* loop starts with an empty scratchpad.
AgentInvokeLowered ==
    /\ pc = "invoke"
    /\ invokes' = invokes + 1
    /\ inflight' = inflight + 1
    /\ agentState' = "Reasoning"
    /\ iterations' = 0
    /\ scratchpad' = <<>>
    /\ agentInput' = Str(Lower(user_input.val))
    /\ pc' = "agent"
    /\ UNCHANGED << locals, out, calls, index, turns >>

AgentInvoke ==
    /\ pc = "invoke"
    /\ invokes' = invokes + 1
    /\ inflight' = inflight + 1
    /\ agentState' = "Reasoning"
    /\ iterations' = 0
    /\ scratchpad' = <<>>
    /\ agentInput' = user_input
    /\ pc' = "agent"
    /\ UNCHANGED << locals, out, calls, index, turns >>

\* One call of the language model inside the executor: it answers, asks
\* for the document_search tool, or the call raises.
ModelStep ==
    /\ pc = "agent"
    /\ agentState = "Reasoning"
    /\ \E decision \in {"final", "tool", "raise"} :
         /\ decision = "tool" => iterations < MaxToolCalls
         /\ agentState' = CASE decision = "final" -> "Answered"
                            [] decision = "tool" -> "ToolCall"
                            [] OTHER -> "Failed"
    /\ UNCHANGED << pc, locals, out, calls, index, turns, invokes, inflight,
                    iterations, scratchpad, agentInput >>

\* What the retriever returns for a query: the k most similar entries.
Retrieved ==
    { S \in SUBSET index :
        Cardinality(S) = IF Cardinality(index) < k THEN Cardinality(index)
                                                   ELSE k }

\* One document_search call: the retriever reads the index and its result
\* is appended to the scratchpad, or the call raises.
ToolStepWriting ==
    /\ pc = "agent"
    /\ agentState = "ToolCall"
    /\ index' = index \cup {Cardinality(index) + 1}
    /\ scratchpad' = Append(scratchpad, index)
    /\ iterations' = iterations + 1
    /\ agentState' = "Reasoning"
    /\ UNCHANGED << pc, locals, out, calls, turns, invokes, inflight,
                    agentInput >>

ToolStep ==
    /\ pc = "agent"
    /\ agentState = "ToolCall"
    /\ \/ /\ \E obs \in Retrieved : scratchpad' = Append(scratchpad, obs)
          /\ iterations' = iterations + 1
          /\ agentState' = "Reasoning"
       \/ /\ agentState' = "Failed"
          /\ UNCHANGED << scratchpad, iterations >>
    /\ UNCHANGED << pc, locals, out, calls, index, turns, invokes, inflight,
                    agentInput >>

\* invoke returned: print("\nAnswer:", response['output']).  The read-out
\* is inside the try, so a response without 'output' is reported by the
\* except clause.  The loop continues.
TurnAnsweredBreaks ==
    /\ pc = "agent"
    /\ agentState = "Answered"
    /\ out' = Append(out, Msg("Answer:"))
    /\ inflight' = inflight - 1
    /\ agentState' = "Idle"
    /\ pc' = "returned"
    /\ UNCHANGED << locals, calls, index, turns, invokes, iterations,
                    scratchpad, agentInput >>

TurnAnswered ==
    /\ pc = "agent"
    /\ agentState = "Answered"
    /\ \E hasOutput \in BOOLEAN :
         out' = Append(out, IF hasOutput THEN Msg("Answer:")
                                         ELSE Msg("An error occurred"))
    /\ inflight' = inflight - 1
    /\ agentState' = "Idle"
    /\ pc' = "prompt"
    /\ UNCHANGED << locals, calls, index, turns, invokes, iterations,
                    scratchpad, agentInput >>

\* invoke raised an Exception: the except clause prints it and the loop
\* continues.
TurnFailedFatal ==
    /\ pc = "agent"
    /\ agentState = "Failed"
    /\ inflight' = inflight - 1
    /\ agentState' = "Idle"
    /\ pc' = "raised"
    /\ UNCHANGED << locals, out, calls, index, turns, invokes, iterations,
                    scratchpad, agentInput >>

TurnFailedSilent ==
    /\ pc = "agent"
    /\ agentState = "Failed"
    /\ inflight' = inflight - 1
    /\ agentState' = "Idle"
    /\ pc' = "prompt"
    /\ UNCHANGED << locals, out, calls, index, turns, invokes, iterations,
                    scratchpad, agentInput >>

TurnFailedRetry ==
    /\ pc = "agent"
    /\ agentState = "Failed"
    /\ inflight' = inflight - 1
    /\ agentState' = "Idle"
    /\ pc' = "invoke"
    /\ UNCHANGED << locals, out, calls, index, turns, invokes, iterations,
                    scratchpad, agentInput >>

TurnFailed ==
    /\ pc = "agent"
    /\ agentState = "Failed"
    /\ out' = Append(out, Msg("An error occurred"))
    /\ inflight' = inflight - 1
    /\ agentState' = "Idle"
    /\ pc' = "prompt"
    /\ UNCHANGED << locals, calls, index, turns, invokes, iterations,
                    scratchpad, agentInput >>

(* --------------------------- specification ---------------------------- *)

Next ==
    \/ SetupEnvironment
    \/ InitializeLlm
    \/ ReadUrl
    \/ LoadDocuments
    \/ SplitDocuments
    \/ CreateVectorStore
    \/ CreateAgentExecutor
    \/ StartInteractiveSession
    \/ ReadQuestion
    \/ AgentInvoke
    \/ ModelStep
    \/ ToolStep
    \/ TurnAnswered
    \/ TurnFailed

Spec == Init /\ [][Next]_vars

\* The program is a single thread that always takes its next step: every
\* collaborator call returns or raises, and the user answers every prompt.
\* The user enters the sentinel at the latest after MaxTurns questions.
LiveSpec == Spec /\ WF_vars(Next)

(* ------------------------- reading the output ------------------------- *)

Last(seq) == seq[Len(seq)]
HasMsg(m) == \E i \in 1..Len(out) : out[i].msg = m
CountIn(seq, S) == Cardinality({ i \in 1..Len(seq) : seq[i] \in S })
IsOutcome(line) == line.msg \in {"Answer:", "An error occurred"}
IsPrompt(line) == line.msg = "Your Question:"
Outcomes(n) == Cardinality({ i \in 1..n : IsOutcome(out[i]) })
Prompts(n) == Cardinality({ i \in 1..n : IsPrompt(out[i]) })

\* Control locations inside start_interactive_session's loop.
LoopPcs == {"prompt", "invoke", "agent"}
LoopStarted == HasMsg("--- RAG Q&A System is Running ---")

(* ------------------------------ claims -------------------------------- *)

\* C1: when agent_executor.invoke (or the read-out of response['output'])
\* raises an Exception, the except clause prints 'An error occurred', the
\* session does not end, and control is back at the 'Your Question:' prompt,
\* where the next input can be read: a failed turn never ends the loop.
C1_TurnFailureContinues ==
    /\ [][ (pc = "agent" /\ agentState = "Failed")
             => /\ out' = Append(out, Msg("An error occurred"))
                /\ pc' = "prompt"
                /\ agent_executor' = agent_executor
                /\ index' = index ]_vars
    /\ [][ (pc = "agent" /\ agentState = "Answered")
             => /\ IsOutcome(Last(out'))
                /\ pc' = "prompt" ]_vars
    /\ [](pc = "prompt" => ENABLED ReadQuestion)

\* C1 witness: a turn failed and a later turn was answered.
C1_Witness ==
    \E i, j \in 1..Len(out) :
        /\ i < j
        /\ out[i].msg = "An error occurred"
        /\ out[j].msg = "Answer:"

\* C2: an input whose lower-cased text is 'exit', in any letter case, prints
\* the goodbye and ends the session without the agent being invoked for it;
\* when it is the first input the agent is never invoked in the session.
C2_ExitEndsSession ==
    /\ pc \in {"invoke", "agent"} => Lower(user_input.val) # EXIT
    /\ invokes <= turns
    /\ (user_input.tag = "str" /\ Lower(user_input.val) = EXIT)
         => /\ pc = "returned"
            /\ Last(out) = Msg("Exiting the system. Goodbye!")
            /\ inflight = 0
            /\ invokes = turns
            /\ Outcomes(Len(out)) = turns
            /\ (Prompts(Len(out)) = 1 => invokes = 0)

\* C2 witness: a mixed-case 'ExiT' as the first input ended the session.
C2_Witness ==
    /\ user_input = Str(<<"E", "x", "i", "T">>)
    /\ pc = "returned"
    /\ Prompts(Len(out)) = 1
    /\ invokes = 0

\* C3: with GROQ_API_KEY absent or empty, main prints the 'API key not
\* found' message and returns before the URL prompt: no LLM initialization,
\* document load, index build or question prompt happens.
C3_MissingKeyStopsFirst ==
    (api_key.tag = "None" \/ (api_key.tag = "str" /\ api_key.val = <<>>))
      => /\ pc = "returned"
         /\ out[1] = Msg("ERROR: Groq API key not found.")
         /\ Len(out) = 2
         /\ ~HasMsg("Please enter the URL")
         /\ ~HasMsg("Your Question:")
         /\ calls = <<>>
         /\ llm = Unset
         /\ document_url = Unset
         /\ doc_splits = Unset
         /\ index = {}
         /\ invokes = 0

\* C3 witness: the key is the empty string and main has returned.
C3_Witness == api_key = Str(<<>>) /\ pc = "returned"

\* C4: with the empty string entered as URL, main prints 'No URL provided'
\* and returns; nothing is loaded, split, indexed, no agent is built and the
\* interactive loop is not entered.
C4_EmptyUrlStops ==
    document_url = Str(<<>>)
      => /\ pc = "returned"
         /\ Last(out) = Msg("No URL provided. Exiting.")
         /\ CountIn(calls, {"loader.load", "RecursiveCharacterTextSplitter",
                            "split_documents", "HuggingFaceEmbeddings",
                            "Chroma.from_documents", "AgentExecutor"}) = 0
         /\ doc_splits = Unset
         /\ vector_store = Unset
         /\ agent_executor = Unset
         /\ index = {}
         /\ ~LoopStarted
         /\ ~HasMsg("Your Question:")

\* C4 witness: the URL is empty, after a successful LLM initialization.
C4_Witness ==
    document_url = Str(<<>>) /\ llm = Obj("ChatGroq") /\ pc = "returned"

\* main ended (by return or by exception) without the loop having started.
SetupAborted == pc \in {"returned", "raised"} /\ ~LoopStarted

\* The setup step that ended main, read off main's locals in the order
\* main tests them.
Cause ==
    CASE ~Truthy(api_key) -> "credential"
      [] ~Truthy(llm) -> "llm"
      [] ~Truthy(document_url) -> "url"
      [] doc_splits.tag = "None" -> "ingestion"
      [] ~Truthy(doc_splits) -> "empty"
      [] vector_store.tag = "None" -> "index"
      [] OTHER -> "agent"

\* The line the code prints for each cause; "none" where it prints nothing.
CauseMessage(c) ==
    CASE c = "credential" -> Msg("Please create a .env file")
      [] c = "llm" -> Msg("Error initializing Groq LLM")
      [] c = "url" -> Msg("No URL provided. Exiting.")
      [] c = "ingestion" -> Msg("Error loading or splitting documents")
      [] c = "empty" -> MsgN("Document split into chunks.", 0)
      [] c = "index" -> Msg("Error creating vector store")
      [] OTHER -> Msg("none")

\* C5: every setup failure ends main before the interactive loop starts and
\* the last line printed at the abort is the message of its cause; no setup
\* abort is left without a message for the cause.  (The count line
\* 'Document split into 0 chunks.' is taken as the message of an empty page.)
C5_EveryAbortHasItsMessage ==
    /\ LoopStarted => /\ Truthy(api_key) /\ Truthy(llm) /\ Truthy(document_url)
                      /\ Truthy(doc_splits) /\ Truthy(vector_store)
                      /\ Truthy(agent_executor)
    /\ SetupAborted => Last(out) = CauseMessage(Cause)

\* C6: main always ends by a normal return, never by a propagated
\* exception, also when building the tool and agent fails.
C6_MainNeverRaises == pc # "raised"

\* C7: questions are processed one at a time: every 'Your Question:' prompt
\* is printed only after each earlier question's outcome line (answer or
\* error) has been printed, and at most one invoke is in progress.
C7_StrictlySequential ==
    /\ inflight \in {0, 1}
    /\ inflight = 1 <=> pc = "agent"
    /\ \A i \in 1..Len(out) :
         IsPrompt(out[i]) => Outcomes(i - 1) = Prompts(i - 1)
    /\ pc = "prompt" => Outcomes(Len(out)) = invokes /\ invokes = turns
    /\ pc = "agent" => Outcomes(Len(out)) = invokes - 1

\* C7 witness: a second prompt was issued after a failed first turn.
C7_Witness ==
    /\ Prompts(Len(out)) = 2
    /\ HasMsg("An error occurred")
    /\ pc = "agent"

\* C8: the vector index is built exactly once, before the loop starts, and
\* no step of the loop (answered, failed, or searching the document any
\* number of times) changes the index, the store or the agent executor.
C8_IndexBuiltOnceReadOnly ==
    /\ [](CountIn(calls, {"Chroma.from_documents"}) <= 1)
    /\ [](LoopStarted => /\ CountIn(calls, {"Chroma.from_documents"}) = 1
                         /\ index = 1..doc_splits.len
                         /\ index # {}
                         /\ vector_store = Obj("Chroma")
                         /\ agent_executor = Obj("AgentExecutor"))
    /\ [][ (pc \in LoopPcs) => ( index' = index
                               /\ vector_store' = vector_store
                               /\ agent_executor' = agent_executor
                               /\ calls' = calls ) ]_vars

\* C8 witness: the second question is in progress after two tool calls in
\* this turn, the first turn having failed.
C8_Witness ==
    /\ pc = "agent"
    /\ invokes = 2
    /\ iterations = 2
    /\ Len(scratchpad) = 2
    /\ HasMsg("An error occurred")

\* Calls that go to the network during setup.
NetworkCalls == {"loader.load", "HuggingFaceEmbeddings"}
FirstAt(name) ==
    IF \E i \in 1..Len(calls) : calls[i] = name
      THEN CHOOSE i \in 1..Len(calls) :
             calls[i] = name /\ \A j \in 1..(i - 1) : calls[j] # name
      ELSE 0

\* C9 as claimed: no network call (the document fetch in particular) is
\* made before the chunker has been constructed and its configuration
\* validated.
C9_ValidatedBeforeNetwork ==
    \A i \in 1..Len(calls) :
        calls[i] \in NetworkCalls
          => \E j \in 1..(i - 1) : calls[j] = "RecursiveCharacterTextSplitter"

\* C9 as amended: the chunker (chunk_size 1000, chunk_overlap 200, a valid
\* configuration) is constructed and validated only after the document
\* fetch, and before any document is split, embedded or indexed.
C9_ValidatedAfterFetchBeforeSplit ==
    /\ ConfigValid(chunk_size, chunk_overlap)
    /\ \A i \in 1..Len(calls) :
         /\ calls[i] = "RecursiveCharacterTextSplitter"
              => /\ FirstAt("loader.load") \in 1..(i - 1)
                 /\ \A j \in 1..(i - 1) :
                      calls[j] \notin {"split_documents", "HuggingFaceEmbeddings",
                                       "Chroma.from_documents"}
         /\ calls[i] \in {"split_documents", "HuggingFaceEmbeddings",
                          "Chroma.from_documents"}
              => FirstAt("RecursiveCharacterTextSplitter") \in 1..(i - 1)

\* C9 witness: the page was fetched, the chunker built, the index built.
C9_Witness ==
    /\ FirstAt("loader.load") > 0
    /\ FirstAt("RecursiveCharacterTextSplitter") > FirstAt("loader.load")
    /\ FirstAt("Chroma.from_documents") > FirstAt("RecursiveCharacterTextSplitter")

\* C12: no retry: agent_executor.invoke is entered at most once per
\* question read, only right after that question was read and with that
\* question; a failed invoke is not entered again but ends the turn with
\* the error line.
C12_NoRetry ==
    /\ [](invokes <= turns)
    /\ [](pc = "prompt" => invokes = turns)
    /\ [][ (invokes' # invokes)
             => /\ pc = "invoke"
                /\ invokes' = invokes + 1
                /\ invokes' = turns
                /\ agentInput' = user_input ]_vars
    /\ [][ (pc = "agent" /\ agentState = "Failed")
             => /\ invokes' = invokes
                /\ turns' = turns
                /\ pc' = "prompt"
                /\ Last(out') = Msg("An error occurred") ]_vars

\* C12 witness: the first question failed after one invoke and the second
\* question has been read.
C12_Witness ==
    /\ pc = "invoke"
    /\ turns = 2
    /\ invokes = 1
    /\ Outcomes(Len(out)) = 1
    /\ HasMsg("An error occurred")

\* The order of main's steps.
PcRank(p) ==
    CASE p = "main" -> 1
      [] p = "initialize_llm" -> 2
      [] p = "url_prompt" -> 3
      [] p = "load" -> 4
      [] p = "split" -> 5
      [] p = "vector" -> 6
      [] p = "create_agent" -> 7
      [] p = "session" -> 8
      [] p \in LoopPcs -> 9
      [] OTHER -> 10

\* The collaborator calls of a complete setup, in main's order.
FullCalls ==
    << "ChatGroq", "loader.load", "RecursiveCharacterTextSplitter",
       "split_documents", "HuggingFaceEmbeddings", "Chroma.from_documents",
       "AgentExecutor" >>

\* C14: setup runs in the order credential check, LLM initialization, URL
\* prompt, load and split, vector store, agent creation, loop; no step runs
\* twice, a step runs only if every earlier one succeeded, and the loop is
\* entered only with credential, LLM client, non-empty URL, non-empty chunk
\* list, vector store and agent executor all present.
C14_SetupOrder ==
    /\ [](/\ Len(calls) <= Len(FullCalls)
          /\ calls = SubSeq(FullCalls, 1, Len(calls))
          /\ CountIn(out, {Msg("Please enter the URL")}) <= 1
          /\ CountIn(out, {Msg("--- RAG Q&A System is Running ---")}) <= 1)
    /\ [](PcRank(pc) \in 2..9 => Truthy(api_key))
    /\ [](PcRank(pc) \in 3..9 => Truthy(llm) /\ calls[1] = "ChatGroq")
    /\ [](PcRank(pc) \in 4..9
            => Truthy(document_url) /\ HasMsg("Please enter the URL"))
    /\ [](PcRank(pc) \in 6..9 => Truthy(doc_splits) /\ Len(calls) >= 4)
    /\ [](PcRank(pc) \in 7..9 => Truthy(vector_store) /\ Len(calls) >= 6)
    /\ [](PcRank(pc) \in 8..9 => Truthy(agent_executor) /\ calls = FullCalls)
    /\ [](PcRank(pc) <= 2 => llm = Unset /\ calls = <<>>)
    /\ [](PcRank(pc) <= 3 => document_url = Unset)
    /\ [](PcRank(pc) <= 4 => doc_splits = Unset /\ Len(calls) <= 1)
    /\ [](PcRank(pc) <= 6 => vector_store = Unset /\ index = {})
    /\ [](PcRank(pc) <= 7 => agent_executor = Unset /\ ~LoopStarted)
    /\ [][ PcRank(pc) <= 8 => PcRank(pc') > PcRank(pc) ]_vars
    /\ [][ PcRank(pc') >= PcRank(pc) ]_vars

\* C14 witness: the loop is at its prompt after a complete setup.
C14_Witness ==
    /\ pc = "prompt"
    /\ calls = FullCalls
    /\ doc_splits = List(2)
    /\ turns = 1

\* C15: every line read at the question prompt that is not the sentinel
\* after lower-casing (the empty line and ' exit' included) is passed
\* unchanged to one invoke, and exactly one outcome line, the answer or the
\* error, is printed for it before the next prompt.
C15_ForwardedOnceOneOutcome ==
    /\ [](pc = "agent" => /\ agentInput = user_input
                          /\ Lower(user_input.val) # EXIT)
    /\ [](pc = "prompt" => Outcomes(Len(out)) = turns /\ invokes = turns)
    /\ [][ (pc = "prompt")
             => (Lower(user_input'.val) # EXIT <=> pc' = "invoke") ]_vars
    /\ [][ (pc = "invoke")
             => /\ pc' = "agent"
                /\ invokes' = invokes + 1
                /\ agentInput' = user_input
                /\ out' = out ]_vars
    /\ [][ (pc = "agent")
             => \/ pc' = "agent" /\ out' = out
                \/ /\ pc' = "prompt"
                   /\ out' \in { Append(out, Msg("Answer:")),
                                 Append(out, Msg("An error occurred")) } ]_vars

\* C15 witness: the empty line got its outcome and ' exit' (leading blank)
\* is now with the agent.
C15_Witness ==
    /\ pc = "agent"
    /\ agentInput = Str(<<" ", "e", "x", "i", "t">>)
    /\ turns = 2
    /\ Outcomes(Len(out)) = 1

\* C16: when load and split succeed with zero chunks, main returns before
\* create_vector_store: the embedding model and the store are only ever
\* built from a non-empty chunk list and the loop is not entered.
C16_EmptySplitsStop ==
    /\ doc_splits = List(0)
         => /\ pc = "returned"
            /\ Last(out) = MsgN("Document split into chunks.", 0)
            /\ CountIn(calls, {"HuggingFaceEmbeddings", "Chroma.from_documents",
                               "AgentExecutor"}) = 0
            /\ vector_store = Unset
            /\ agent_executor = Unset
            /\ ~LoopStarted
    /\ CountIn(calls, {"HuggingFaceEmbeddings", "Chroma.from_documents"}) > 0
         => doc_splits.tag = "list" /\ doc_splits.len > 0
    /\ pc \in {"vector", "create_agent", "session"} \cup LoopPcs
         => doc_splits.len > 0

\* C16 witness: the page was fetched and split into zero chunks.
C16_Witness ==
    /\ doc_splits = List(0)
    /\ calls = SubSeq(FullCalls, 1, 4)
    /\ pc = "returned"

\* C17: once the loop has started, with every invoke returning or raising
\* and the user entering the sentinel in the end, the session terminates;
\* and the loop is left only by reading the sentinel: no answered or
\* failed turn ends it.
C17_EndsOnlyBySentinel ==
    /\ (pc \in LoopPcs) ~> (pc = "returned")
    /\ [][ (pc \in LoopPcs /\ pc' \notin LoopPcs)
             => /\ pc = "prompt"
                /\ Lower(user_input'.val) = EXIT
                /\ pc' = "returned"
                /\ Last(out') = Msg("Exiting the system. Goodbye!") ]_vars

\* C17 witness: the session ended after an answered and a failed turn.
C17_Witness ==
    /\ pc = "returned"
    /\ LoopStarted
    /\ turns = 2
    /\ HasMsg("Answer:")
    /\ HasMsg("An error occurred")

====
